---- MODULE Spec2Model ----
(***************************************************************************)
(* csvtool: the range mini-language (range_normalizer) and the lazy        *)
(* row-filtering iterator (RangeIterator) of csvtool.py.                   *)
(*                                                                         *)
(* A str is a sequence of one-character strings; a tuple (l, u) is the     *)
(* pair <<l, u>>; a list is a sequence.  Python indices are 0-based, the   *)
(* sequences here 1-based, so list[i] is written list[i + 1].              *)
(***************************************************************************)
EXTENDS Integers, Sequences, FiniteSets

\* ------------------------------------------------------------------ bounds
\* longest range expression handed to range_normalizer on its own
MaxExprLen == 6
\* longest range expression handed to the RangeIterator constructor
MaxRangeLen == 4
\* longest input iterable; interval bounds of list arguments lie in 0..MaxN
MaxN == 4
\* most intervals in a list argument of the RangeIterator constructor
MaxIntervals == 2

\* The default ulim of range_normalizer, 2**128.  TLC's integers are 32 bits
\* wide, so the sentinel is scaled to 2^30: like 2**128 it lies above every
\* numeral and every input position the bounds allow.
Ulim == 2^30

None == "None"

\* the characters range expressions are drawn from: numerals, the two
\* separators and one character that is no numeral
Chars == {"0", "1", "2", "-", ",", "x"}

DecimalDigits == <<"0", "1", "2", "3", "4", "5", "6", "7", "8", "9">>

Strings(n) == UNION {[1..k -> Chars] : k \in 0..n}

Max(a, b) == IF a >= b THEN a ELSE b

\* ------------------------------------------------------- str.split, int()
RECURSIVE split(_, _)
split(s, sep) ==
    IF s = <<>> THEN << <<>> >>
    ELSE LET rest == split(Tail(s), sep)
         IN  IF Head(s) = sep
             THEN << <<>> >> \o rest
             ELSE << <<Head(s)>> \o Head(rest) >> \o Tail(rest)

\* int(s) raises ValueError unless s is a numeral
IntRaises(s) ==
    \/ s = <<>>
    \/ \E i \in 1..Len(s) : \A d \in 1..10 : DecimalDigits[d] # s[i]

DigitValue(c) == (CHOOSE d \in 1..10 : DecimalDigits[d] = c) - 1

RECURSIVE int(_)
int(s) ==
    IF Len(s) = 1 THEN DigitValue(s[1])
    ELSE 10 * int(SubSeq(s, 1, Len(s) - 1)) + DigitValue(s[Len(s)])

\* --------------------------------------------------------- range_normalizer
\* One pass of the for loop body over a comma-separated sequence:
\* "continue", "raise" (ValueError) or "append" of (lbound, ubound).
ParseManyAtomsAsTwo(sequence, ulim) ==
    LET atoms == split(sequence, "-")
    IN  IF Len(atoms) = 1
        THEN IF atoms = << <<>> >> THEN [do |-> "continue", item |-> <<>>]
             ELSE IF IntRaises(atoms[1]) THEN [do |-> "raise", item |-> <<>>]
             ELSE [do |-> "append", item |-> <<int(atoms[1]), int(atoms[1])>>]
        ELSE IF    (atoms[1] # <<>> /\ IntRaises(atoms[1]))
                \/ (atoms[2] # <<>> /\ IntRaises(atoms[2]))
             THEN [do |-> "raise", item |-> <<>>]
             ELSE [do |-> "append",
                   item |-> << IF atoms[1] = <<>> THEN 0 ELSE int(atoms[1]),
                               IF atoms[2] = <<>> THEN ulim ELSE int(atoms[2]) >>]

ParseSequence(sequence, ulim) ==
    LET atoms == split(sequence, "-")
    IN  IF Len(atoms) = 0 THEN [do |-> "continue", item |-> <<>>]
        ELSE IF Len(atoms) = 1
        THEN IF atoms = << <<>> >> THEN [do |-> "continue", item |-> <<>>]
             ELSE IF IntRaises(atoms[1]) THEN [do |-> "raise", item |-> <<>>]
             ELSE [do |-> "append", item |-> <<int(atoms[1]), int(atoms[1])>>]
        ELSE IF Len(atoms) = 2
        THEN IF    (atoms[1] # <<>> /\ IntRaises(atoms[1]))
                \/ (atoms[2] # <<>> /\ IntRaises(atoms[2]))
             THEN [do |-> "raise", item |-> <<>>]
             ELSE [do |-> "append",
                   item |-> << IF atoms[1] = <<>> THEN 0 ELSE int(atoms[1]),
                               IF atoms[2] = <<>> THEN ulim ELSE int(atoms[2]) >>]
        ELSE [do |-> "raise", item |-> <<>>]

\* the for loop: the first raise ends it
RECURSIVE ParseLoop(_, _, _)
ParseLoop(parts, ulim, normalized_sequences) ==
    IF parts = <<>> THEN [raised |-> None, value |-> normalized_sequences]
    ELSE LET p == ParseSequence(Head(parts), ulim)
         IN  IF p.do = "raise" THEN [raised |-> "ValueError", value |-> None]
             ELSE IF p.do = "continue"
             THEN ParseLoop(Tail(parts), ulim, normalized_sequences)
             ELSE ParseLoop(Tail(parts), ulim, Append(normalized_sequences, p.item))

\* key=operator.itemgetter(0, 1)
KeyLeq(a, b) == a[1] < b[1] \/ (a[1] = b[1] /\ a[2] <= b[2])

RECURSIVE Insert(_, _)
Insert(x, list) ==
    IF list = <<>> THEN <<x>>
    ELSE IF KeyLeq(x, Head(list)) THEN <<x>> \o list
    ELSE <<Head(list)>> \o Insert(x, Tail(list))

RECURSIVE sorted(_)
sorted(list) ==
    IF list = <<>> THEN <<>> ELSE Insert(Head(list), sorted(Tail(list)))

Pop(list, i) == SubSeq(list, 1, i) \o SubSeq(list, i + 2, Len(list))

\* the merge test of the pairwise scan
MergeableOverlapOnly(seq1_0, seq1_1, seq2_0) ==
    seq1_0 <= seq2_0 /\ seq1_1 >= seq2_0

Mergeable(seq1_0, seq1_1, seq2_0) ==
    seq1_0 <= seq2_0 /\ seq1_1 >= seq2_0 - 1

\* while n2 < l2
RECURSIVE InnerLoop(_, _, _, _)
InnerLoop(normalized_sequences, n1, n2, l2) ==
    IF ~(n2 < l2) THEN [list |-> normalized_sequences, l2 |-> l2]
    ELSE LET seq1_0 == normalized_sequences[n1 + 1][1]
             seq1_1 == normalized_sequences[n1 + 1][2]
             seq2_0 == normalized_sequences[n2 + 1][1]
             seq2_1 == normalized_sequences[n2 + 1][2]
         IN  IF Mergeable(seq1_0, seq1_1, seq2_0)
             THEN InnerLoop(
                    Pop([normalized_sequences EXCEPT
                            ![n1 + 1] = <<seq1_0, Max(seq1_1, seq2_1)>>], n2),
                    n1, n2, l2 - 1)
             ELSE InnerLoop(normalized_sequences, n1, n2 + 1, l2)

\* while n1 < l1
RECURSIVE OuterLoop(_, _, _, _)
OuterLoop(normalized_sequences, n1, l1, l2) ==
    IF ~(n1 < l1) THEN normalized_sequences
    ELSE LET r == InnerLoop(normalized_sequences, n1, n1 + 1, l2)
         IN  OuterLoop(r.list, n1 + 1, l1, r.l2)

range_normalizer(ranges, ulim) ==
    LET parsed == ParseLoop(split(ranges, ","), ulim, <<>>)
    IN  IF parsed.raised # None THEN parsed
        ELSE LET ns == sorted(parsed.value)
             IN  [raised |-> None,
                  value  |-> OuterLoop(ns, 0, Len(ns) - 1, Len(ns))]

\* ------------------------------------------------------------- program state
VARIABLES
    ranges,     \* the argument of a call of range_normalizer on its own
    returned,   \* what that call returned or raised
    iterable, sequences, filter_out,    \* the RangeIterator constructor's arguments
    _filter_out, _iterable, _sequences, \* the object's fields
    _iter,      \* enumerate(self._iterable): the number of items it has handed out
    _generator, \* chain(range(l, u + 1), ...): [k: the range it is in, v: its next value]
    _sequence_item, _enumeration,
    _end_iter_encountered, _end_sequence_encountered,
    phase,      \* "new", "returned", "failed", "constructed", "iterating"
    last,       \* the method called last: "init", "iter", "next"
    raised,     \* the exception that call raised, or None
    out,        \* the values the traversal under way has returned
    pulled,     \* the positions that traversal has pulled from the iterable
    restarted,  \* whether __iter__ has been called on a traversal under way
    firstOut,   \* out of the first traversal when the second began
    firstDone   \* whether the first traversal had signalled its end by then

args   == <<iterable, sequences, filter_out>>
fields == <<_filter_out, _iterable, _sequences, _iter, _generator, _sequence_item,
            _enumeration, _end_iter_encountered, _end_sequence_encountered>>
hist   == <<out, pulled, restarted, firstOut, firstDone>>
vars   == <<ranges, returned, args, fields, phase, last, raised, hist>>

\* the item at 0-based position p of an input iterable
Row(p) == <<"row", p>>

Iterables == {[i \in 1..n |-> Row(i - 1)] : n \in 0..MaxN}

\* Interval Sets handed to the constructor as a list: sorted, lower <= upper,
\* neither overlapping nor adjacent
Intervals == {<<l, u>> : l \in 0..MaxN, u \in (0..MaxN) \cup {Ulim}}

IsIntervalSet(list) ==
    /\ \A i \in 1..Len(list) : 0 <= list[i][1] /\ list[i][1] <= list[i][2]
    /\ \A i \in 1..Len(list) : \A j \in 1..Len(list) :
          i < j => list[i][2] < list[j][1] - 1

IntervalSets ==
    {list \in UNION {[1..k -> Intervals] : k \in 0..MaxIntervals} : IsIntervalSet(list)}

\* ------------------------------------------------------------ the iterators
\* next(self._iter)
EnumerateNext(items, it) ==
    IF it < Len(items)
    THEN [stop |-> FALSE, item |-> <<it, items[it + 1]>>, it |-> it + 1]
    ELSE [stop |-> TRUE, item |-> <<>>, it |-> it]

\* chain(*[range(l, u + 1) for (l, u) in self._sequences])
NewGenerator(list) ==
    [k |-> 1, v |-> IF list = <<>> THEN 0 ELSE list[1][1]]

\* next(self._generator)
RECURSIVE GeneratorNext(_, _)
GeneratorNext(list, g) ==
    IF g.k > Len(list) THEN [stop |-> TRUE, value |-> 0, g |-> g]
    ELSE IF g.v < list[g.k][2] + 1
    THEN [stop |-> FALSE, value |-> g.v, g |-> [g EXCEPT !.v = g.v + 1]]
    ELSE GeneratorNext(list,
            [k |-> g.k + 1,
             v |-> IF g.k + 1 > Len(list) THEN 0 ELSE list[g.k + 1][1]])

\* the object, as the methods see it
Self ==
    [_filter_out |-> _filter_out, _iterable |-> _iterable, _sequences |-> _sequences,
     _iter |-> _iter, _generator |-> _generator, _sequence_item |-> _sequence_item,
     _enumeration |-> _enumeration,
     _end_iter_encountered |-> _end_iter_encountered,
     _end_sequence_encountered |-> _end_sequence_encountered,
     pulled |-> pulled, raised |-> None, value |-> None]

\* ---------------------------------------------------- RangeIterator.__init__
init(self, items, seqs, invert) ==
    LET s == [self EXCEPT !._filter_out = invert, !._iterable = items]
    IN  IF seqs.str
        THEN LET n == range_normalizer(seqs.val, Ulim)
             IN  IF n.raised # None THEN [s EXCEPT !.raised = n.raised]
                 ELSE [s EXCEPT !._sequences = n.value]
        ELSE [s EXCEPT !._sequences = seqs.val]

\* ---------------------------------------------------- RangeIterator.__iter__
iterKeepsCursors(self) ==
    LET s == [self EXCEPT !._iter = 0,
                          !._generator = NewGenerator(self._sequences),
                          !.pulled = <<>>]
        g == GeneratorNext(self._sequences, s._generator)
    IN  IF self.pulled # <<>>
        THEN [self EXCEPT !._end_iter_encountered = FALSE,
                          !._end_sequence_encountered = FALSE]
        ELSE IF g.stop THEN [s EXCEPT !.raised = "StopIteration"]
        ELSE [s EXCEPT !._generator = g.g, !._sequence_item = g.value,
                       !._end_iter_encountered = FALSE,
                       !._end_sequence_encountered = FALSE]

iter(self) ==
    LET s == [self EXCEPT !._iter = 0,
                          !._generator = NewGenerator(self._sequences),
                          !.pulled = <<>>]
        g == GeneratorNext(self._sequences, s._generator)
    IN  IF g.stop THEN [s EXCEPT !.raised = "StopIteration"]
        ELSE [s EXCEPT !._generator = g.g, !._sequence_item = g.value,
                       !._end_iter_encountered = FALSE,
                       !._end_sequence_encountered = FALSE]

\* ---------------------------------------------------- RangeIterator.__next__
\* self._enumeration = next(self._iter), where it does not raise
PullAdvancesCursor(self, e) ==
    LET g == GeneratorNext(self._sequences, self._generator)
    IN  [self EXCEPT !._enumeration = e.item, !._iter = e.it,
                     !.pulled = Append(@, e.item[1]),
                     !._generator = g.g,
                     !._sequence_item = IF g.stop THEN @ ELSE g.value]

Pull(self, e) ==
    [self EXCEPT !._enumeration = e.item, !._iter = e.it,
                 !.pulled = Append(@, e.item[1])]

\* except StopIteration: self._end_sequence_encountered = True
SequenceEndEndsTraversal(self) ==
    [self EXCEPT !._end_sequence_encountered = TRUE, !._end_iter_encountered = TRUE]

SequenceEnd(self) ==
    [self EXCEPT !._end_sequence_encountered = TRUE]

\* return val
ReturnAfterReadAhead(self, val) ==
    LET e == EnumerateNext(self._iterable, self._iter)
    IN  [(IF e.stop THEN self ELSE Pull(self, e)) EXCEPT !.value = val]

Return(self, val) ==
    [self EXCEPT !.value = val]

\* while self._end_iter_encountered is False: ...; raise StopIteration
RECURSIVE WhileLoop(_)
\* the loop's test and one pass through its body
LoopPass(self) ==
    IF self._end_iter_encountered THEN [self EXCEPT !.raised = "StopIteration"]
    ELSE
    LET val == self._enumeration[2]
        hit == self._enumeration[1] = self._sequence_item
        g   == GeneratorNext(self._sequences, self._generator)
        s   == IF ~hit THEN self
               ELSE IF g.stop THEN SequenceEnd([self EXCEPT !._generator = g.g])
               ELSE [self EXCEPT !._generator = g.g, !._sequence_item = g.value]
        e   == EnumerateNext(s._iterable, s._iter)
    IN  IF (hit /\ s._filter_out = FALSE) \/ (~hit /\ s._filter_out = TRUE)
        THEN Return(s, val)
        ELSE IF e.stop THEN WhileLoop([s EXCEPT !._iter = e.it,
                                                !._end_iter_encountered = TRUE])
        ELSE WhileLoop(Pull(s, e))

\* the object a pass begins with is computed once, before the pass
WhileLoop(self) ==
    CHOOSE r \in {LoopPass(s) : s \in {self}} : TRUE

next(self) ==
    LET e == EnumerateNext(self._iterable, self._iter)
    IN  IF e.stop THEN [self EXCEPT !._iter = e.it, !.raised = "StopIteration"]
        ELSE WhileLoop(Pull(self, e))

\* --------------------------------------------------------------- the actions
Store(s) ==
    /\ _filter_out' = s._filter_out
    /\ _iterable' = s._iterable
    /\ _sequences' = s._sequences
    /\ _iter' = s._iter
    /\ _generator' = s._generator
    /\ _sequence_item' = s._sequence_item
    /\ _enumeration' = s._enumeration
    /\ _end_iter_encountered' = s._end_iter_encountered
    /\ _end_sequence_encountered' = s._end_sequence_encountered
    /\ pulled' = s.pulled
    /\ raised' = s.raised

NoObject ==
    /\ _filter_out = None /\ _iterable = None /\ _sequences = None
    /\ _iter = None /\ _generator = None /\ _sequence_item = None
    /\ _enumeration = None
    /\ _end_iter_encountered = None /\ _end_sequence_encountered = None
    /\ last = None /\ raised = None
    /\ out = <<>> /\ pulled = <<>>
    /\ restarted = FALSE /\ firstOut = <<>> /\ firstDone = FALSE

\* RangeIterator(iterable, sequences, filter_out)
Construct ==
    /\ phase = "new"
    /\ LET s == init(Self, iterable, sequences, filter_out)
       IN  /\ Store(s)
           /\ phase' = IF s.raised # None THEN "failed" ELSE "constructed"
    /\ last' = "init"
    /\ UNCHANGED <<ranges, returned, args, out, restarted, firstOut, firstDone>>

\* iter(obj): begins a traversal, also while one is under way or after its end
Iter ==
    /\ phase \in {"constructed", "iterating"}
    /\ LET s == iter(Self)
       IN  /\ Store(s)
           /\ phase' = IF s.raised # None THEN "constructed" ELSE "iterating"
    /\ last' = "iter"
    /\ out' = <<>>
    /\ IF phase = "iterating" /\ ~restarted
       THEN /\ restarted' = TRUE
            /\ firstOut' = out
            /\ firstDone' = (raised = "StopIteration")
       ELSE UNCHANGED <<restarted, firstOut, firstDone>>
    /\ UNCHANGED <<ranges, returned, args>>

\* next(obj) on the iterator a successful iter(obj) returned
Next_ ==
    /\ phase = "iterating"
    /\ \E s \in {next(Self)} :
           /\ Store(s)
           /\ out' = IF s.raised = None THEN Append(out, s.value) ELSE out
    /\ last' = "next"
    /\ UNCHANGED <<ranges, returned, args, phase, restarted, firstOut, firstDone>>

Init ==
    /\ ranges = <<>> /\ returned = None
    /\ iterable \in Iterables
    /\ sequences \in [str : {TRUE}, val : Strings(MaxRangeLen)]
                     \cup [str : {FALSE}, val : IntervalSets]
    /\ filter_out \in BOOLEAN
    /\ phase = "new"
    /\ NoObject

Next == Construct \/ Iter \/ Next_

Spec == Init /\ [][Next]_vars

\* ------------------------------------------- range_normalizer called directly
Normalize ==
    /\ phase = "new"
    /\ returned' = range_normalizer(ranges, Ulim)
    /\ phase' = "returned"
    /\ UNCHANGED <<ranges, args, fields, last, raised, hist>>

InitNorm ==
    /\ ranges \in Strings(MaxExprLen) /\ returned = None
    /\ iterable = <<>> /\ sequences = [str |-> TRUE, val |-> <<>>] /\ filter_out = FALSE
    /\ phase = "new"
    /\ NoObject

NextNorm == Normalize

SpecNorm == InitNorm /\ [][NextNorm]_vars

\* ------------------- one traversal whose consumer keeps asking for the next item
\* iter(obj), once, on the object as constructed
IterOnce ==
    /\ last = "init"
    /\ Iter

NextOnce == Construct \/ IterOnce \/ Next_

SpecOnce == Init /\ [][NextOnce]_vars /\ WF_vars(Next_)

\* =================================================================== claims
Range(f) == {f[i] : i \in DOMAIN f}

IsPrefix(a, b) == Len(a) <= Len(b) /\ a = SubSeq(b, 1, Len(a))

\* position p lies in some interval of the list
InSome(p, list) == \E i \in 1..Len(list) : list[i][1] <= p /\ p <= list[i][2]

\* the items a filter over the list is to yield, in input order
Expected(items, list, invert) ==
    SelectSeq(items, LAMBDA row : InSome(row[2], list) # invert)

\* the values iter() and then next() until it raises hand out, [] if iter() raises
RECURSIVE Drain(_, _)
Drain(self, acc) ==
    LET s == next(self)
    IN  IF s.raised # None THEN acc ELSE Drain(s, Append(acc, s.value))

Yielded(items, list, invert) ==
    LET blank == [_filter_out |-> None, _iterable |-> None, _sequences |-> None,
                  _iter |-> None, _generator |-> None, _sequence_item |-> None,
                  _enumeration |-> None, _end_iter_encountered |-> None,
                  _end_sequence_encountered |-> None,
                  pulled |-> <<>>, raised |-> None, value |-> None]
        s == iter(init(blank, items, [str |-> FALSE, val |-> list], invert))
    IN  IF s.raised # None THEN <<>> ELSE Drain(s, <<>>)

HasObject == phase \in {"constructed", "iterating"}

\* the traversal has ended: iter() raised, or next() signalled the end
TraversalOver ==
    /\ HasObject
    /\ last \in {"iter", "next"}
    /\ raised = "StopIteration"

Yields == phase = "iterating" /\ last = "next" /\ raised = None

Done == phase = "iterating" /\ last = "next" /\ raised = "StopIteration"

\* ---- the grammar of range expressions, read off the expression's characters
Numerals == {DecimalDigits[d] : d \in 1..10}

\* some atom holds two '-' or a character that is neither numeral nor '-'
Malformed(e) ==
    \/ \E i \in 1..Len(e) : e[i] \notin Numerals \cup {"-", ","}
    \/ \E i \in 1..Len(e) : \E j \in (i + 1)..Len(e) :
          /\ e[i] = "-" /\ e[j] = "-"
          /\ \A k \in i..j : e[k] # ","

\* the bounds <<A, B>> of the integers a well-formed, non-empty atom denotes
AtomBounds(t) ==
    LET dashes == {i \in 1..Len(t) : t[i] = "-"}
    IN  IF dashes = {} THEN <<int(t), int(t)>>
        ELSE LET d == CHOOSE i \in dashes : TRUE
             IN  << IF d = 1 THEN 0 ELSE int(SubSeq(t, 1, d - 1)),
                    IF d = Len(t) THEN Ulim ELSE int(SubSeq(t, d + 1, Len(t))) >>

AtomsOf(e) == LET parts == split(e, ",")
              IN  {AtomBounds(parts[k]) : k \in {k \in 1..Len(parts) : parts[k] # <<>>}}

Denoted(p, e) == \E b \in AtomsOf(e) : b[1] <= p /\ p <= b[2]

\* two unions of intervals differ, if at all, at an end point or next to one
Probes(e, list) ==
    LET ends == UNION {{b[1], b[2]} : b \in AtomsOf(e) \cup Range(list)}
    IN  UNION {{x - 1, x, x + 1} : x \in ends}

\* -------------------------------------------------------------------- C1
\* C1: for a range expression that normalizes to a non-empty interval set, a
\* full traversal yields exactly the input items whose position lies in some
\* interval (invert false) or in none (invert true), once each, in input order.
C1_FullTraversalFilters ==
    (TraversalOver /\ sequences.str /\ _sequences # <<>>)
        => out = Expected(_iterable, _sequences, _filter_out)

\* -------------------------------------------------------------------- C2
\* C2: the list range_normalizer returns is sorted ascending by (lower, upper)
\* and for any two of its intervals a before b, a.upper < b.lower - 1.
C2_SortedAndSeparated ==
    (phase = "returned" /\ returned.raised = None)
        => \A i \in 1..Len(returned.value) : \A j \in 1..Len(returned.value) :
              i < j => /\ KeyLeq(returned.value[i], returned.value[j])
                       /\ returned.value[i][2] < returned.value[j][1] - 1

\* a call that merged some atoms and still returned two intervals or more
C2_Witness ==
    /\ phase = "returned" /\ returned.raised = None
    /\ Len(returned.value) >= 2
    /\ Len(returned.value) < Len(ParseLoop(split(ranges, ","), Ulim, <<>>).value)

\* -------------------------------------------------------------------- C3
\* C3: the integers the returned intervals cover are exactly the integers the
\* expression's atoms denote, and the returned list has the fewest intervals
\* that cover that set (one per maximal run of denoted integers).
C3_CoversExactlyAndMinimally ==
    (phase = "returned" /\ returned.raised = None)
        => LET ps == Probes(ranges, returned.value)
           IN  /\ \A p \in ps : Denoted(p, ranges) <=> InSome(p, returned.value)
               /\ Len(returned.value) =
                    Cardinality({p \in ps : Denoted(p, ranges) /\ ~Denoted(p - 1, ranges)})

\* -------------------------------------------------------------------- C4
\* C4: for an Interval Set and a finite input, the items a traversal yields
\* with invert false and those it yields with invert true are disjoint and
\* together are all the input's items.
C4_FilterAndInversionPartition ==
    (TraversalOver /\ IsIntervalSet(_sequences))
        => LET mine  == Range(out)
               other == Range(Yielded(_iterable, _sequences, ~_filter_out))
           IN  /\ mine \cap other = {}
               /\ mine \cup other = Range(_iterable)

\* -------------------------------------------------------------------- C5
\* C5: with an empty Interval Set a traversal raises no error: iter() returns
\* an iterator, which yields nothing (invert false) or every item (invert true).
C5_EmptySetRaisesNothing ==
    (HasObject /\ _sequences = <<>>)
        => /\ last = "iter" => raised = None
           /\ TraversalOver => out = (IF _filter_out THEN _iterable ELSE <<>>)

\* -------------------------------------------------------------------- C6
\* the first integer the interval list covers
FirstCovered(list) ==
    LET lows == {list[i][1] : i \in {i \in 1..Len(list) : list[i][1] <= list[i][2]}}
    IN  CHOOSE l \in lows : \A m \in lows : l <= m

\* C6: a fresh traversal, begun after any next-requests of an earlier one
\* (ended or abandoned), starts at position 0 and at the first covered integer,
\* and yields the same sequence as the first traversal did.
C6_RestartRepeats ==
    /\ (phase = "iterating" /\ last = "iter")
          => /\ _iter = 0 /\ pulled = <<>> /\ out = <<>>
             /\ _sequence_item = FirstCovered(_sequences)
    /\ (phase = "iterating" /\ restarted)
          => /\ IsPrefix(out, firstOut) \/ IsPrefix(firstOut, out)
             /\ firstDone => IsPrefix(out, firstOut)
             /\ Done => IsPrefix(firstOut, out)

\* a first traversal abandoned after it yielded, and a later one run to its end
C6_Witness ==
    /\ restarted /\ ~firstDone /\ Done
    /\ Len(firstOut) >= 1 /\ Len(out) > Len(firstOut)

C8_BoundsOrdered ==
    (phase = "returned" /\ returned.raised = None)
        => \A i \in 1..Len(returned.value) :
              /\ 0 <= returned.value[i][1]
              /\ returned.value[i][1] <= returned.value[i][2]

\* -------------------------------------------------------------------- C9
SequenceExhausted == phase = "iterating" /\ last = "next" /\ _end_sequence_encountered

\* once the covered integers are exhausted, every item pulled from a later
\* position is rejected (invert false) or selected (invert true), and the
\* traversal ends only when the whole input has been pulled
C9_AfterExhaustion ==
    /\ SequenceExhausted
          => \A i \in 1..Len(pulled) :
                pulled[i] > _sequence_item
                   => (Row(pulled[i]) \in Range(out) <=> _filter_out)
    /\ Done => Len(pulled) = Len(_iterable)

\* exhaustion lasts for the rest of the traversal
C9_ExhaustionLasts ==
    (SequenceExhausted /\ phase' = "iterating" /\ last' = "next")
        => /\ _end_sequence_encountered'
           /\ _sequence_item' = _sequence_item

\* C9: exhaustion of the covered integers does not end the traversal and is
\* permanent: every later item is rejected (invert false) or selected (invert
\* true) until the input itself is exhausted.
C9_ExhaustionPermanent == []C9_AfterExhaustion /\ [][C9_ExhaustionLasts]_vars

\* an inverted traversal that yielded an item from beyond the last covered integer
C9_Witness ==
    /\ SequenceExhausted /\ _filter_out
    /\ \E i \in 1..Len(out) : out[i][2] > _sequence_item

\* ------------------------------------------------------------------- C10
\* C10: items are pulled one at a time, each at most once and in order; when
\* the item at position p is yielded exactly p + 1 items have been pulled; and
\* nothing is pulled before the first next-request.
C10_NoReadAhead ==
    /\ pulled = [i \in 1..Len(pulled) |-> i - 1]
    /\ Yields => Len(pulled) = out[Len(out)][2] + 1
    /\ last \in {None, "init", "iter"} => pulled = <<>>

\* an item yielded after an earlier one was passed over
C10_Witness ==
    /\ Yields /\ Len(out) = 1 /\ out[1][2] >= 1

\* ------------------------------------------------------------------- C11
\* how many integers >= b the generator g has handed out of the list's ranges
RECURSIVE DrawnFrom(_, _, _, _)
DrawnFrom(list, g, b, i) ==
    IF i > Len(list) \/ i > g.k THEN 0
    ELSE LET hi == IF i < g.k THEN list[i][2] ELSE g.v - 1
             lo == Max(list[i][1], b)
         IN  (IF hi >= lo THEN hi - lo + 1 ELSE 0) + DrawnFrom(list, g, b, i + 1)

\* next() has signalled the end, and the whole input has been pulled
DoneAfterInput == Done /\ Len(pulled) = Len(_iterable)

\* a traversal that is asked for its next item again and again signals its end
C11_Ends == (phase = "iterating") ~> DoneAfterInput

\* no covered integer beyond one past the last input position is enumerated
C11_NoneBeyondInput ==
    phase = "iterating"
        => DrawnFrom(_sequences, _generator, Len(_iterable) + 1, 1) = 0

\* C11 as claimed: the traversal eventually signals end-of-sequence, after the
\* input is exhausted, and never enumerates a covered integer beyond one past
\* the last input position.
C11_EndsAndStaysWithinInput == C11_Ends /\ []C11_NoneBeyondInput

\* of the covered integers enumerated, at most one is not a position already
\* pulled: the cursor moves on only when a pulled position matches it
C11_OneAhead ==
    phase = "iterating"
        => DrawnFrom(_sequences, _generator, Len(pulled), 1) <= 1

\* C11 amended: the traversal eventually signals end-of-sequence, after the
\* input is exhausted, and at no time has it enumerated more than one covered
\* integer that is not a position it has pulled (so at most one that is not an
\* input position, and at most one more integer than the input has items).
C11_EndsAndStaysOneAhead == C11_Ends /\ []C11_OneAhead

\* a traversal over an interval unbounded above that ended with the cursor one
\* past the last input position
C11_Witness ==
    /\ DoneAfterInput /\ Len(_iterable) >= 2
    /\ _sequences[Len(_sequences)][2] = Ulim
    /\ _sequence_item = Len(_iterable)

====
